---- MODULE Spec2Model ----
(***************************************************************************)
(* Flying toasters (examples/RP2/Waveshare-lcd-2/toasters/toasters.py):    *)
(* three sprites drift left and down over a display without a frame        *)
(* buffer.  The model keeps the sprite fields, the position of the main    *)
(* loop, the stop pin and the display calls issued for the sprite whose    *)
(* turn it is.  The surface and the tile are scaled down; every other      *)
(* number is the program's.                                                *)
(* Clock (examples/T-DISPLAY/clock/clock.py): the debounced buttons, the   *)
(* background lock and the part of the main loop that asks for a new       *)
(* background.                                                             *)
(***************************************************************************)
EXTENDS Integers, Sequences, FiniteSets, TLC

\* ---------------------------------------------------------------- sizes
\* tft.width(), tft.height(): the display driver's surface (scaled down).
SurfaceWidth == 12
SurfaceHeight == 9
\* toast_bitmaps.WIDTH, toast_bitmaps.HEIGHT: the tile (scaled down).
TileWidth == 3
TileHeight == 3
\* number of full ticks of the main loop a run of Spec follows
MaxTicks == 1
\* number of full ticks a run of SpecStop follows
StopTicks == 5
\* a surface on which a deflected sprite can fall for a whole countdown, and the
\* number of full ticks a run of SpecTall follows on it
TallWidth == 40
TallHeight == 100
TallTicks == 32

\* ---------------------------------------------------------------- program constants
TOASTER_FRAMES == <<0, 1, 2, 3>>
TOAST_FRAMES == <<4>>
\* the three frame lists handed to Toast() in main, in construction order
SpriteFrames == <<TOAST_FRAMES, TOASTER_FRAMES, TOASTER_FRAMES>>
NumSprites == Len(SpriteFrames)
\* dir_col = -random.randint(2, 5)
MinSpeed == 2
MaxSpeed == 5
\* the model draws every DrawStride-th value of a random.randint range, and its ends
DrawStride == 3
\* dir_row of a cruising sprite
CruiseDirRow == 2
\* the deflection: iceberg = 32, dir_col = -1, dir_row = 3
DeflectTicks == 32
DeflectDirCol == -1
DeflectDirRow == 3
BLACK == "BLACK"

\* sprites: the list of Toast objects; pc, cur: where main is; stop: the pin;
\* calls: the display calls of the current sprite's turn; tick: finished ticks.
\* History only: mv (what the last move did), gh (per sprite), held (calls made
\* while the stop pin has been held low), sample (the last value read from it).
VARIABLES sprites, pc, cur, stop, calls, tick, mv, gh, held, sample
\* tft: the display driver object, of which the model keeps width() and height()
VARIABLE tft

toastVars == <<sprites, pc, cur, stop, calls, tick, mv, gh, held, sample, tft>>

\* a call of collide on its own: the two rectangles and what it returned
VARIABLES rect_a, rect_b, answer

rectVars == <<rect_a, rect_b, answer>>

\* clock.py.  now: utime.ticks_ms(); next_call: Button._next_call of each button;
\* rtc: the hour of the real time clock; background_lock: the global;
\* background_change, last_time, time: locals of main (of the two strings, the
\* character at index 1); cpc: where main is.
\* History only: since (ms since a button's last accepted interrupt), irq (what
\* the last interrupt did), iters (loop iterations begun since the last callback).
VARIABLES now, next_call, rtc, background_lock, background_change, last_time,
          time, cpc, since, irq, iters

clockVars == <<now, next_call, rtc, background_lock, background_change, last_time,
               time, cpc, since, irq, iters>>

vars == <<toastVars, rectVars, clockVars>>

\* ---------------------------------------------------------------- random
\* random.randint(lo, hi) returns lo <= n <= hi
randint(lo, hi) == lo..hi

\* the values of randint(lo, hi) a run draws from
Draws(lo, hi) ==
    {n \in randint(lo, hi) : (n - lo) % DrawStride = 0 \/ n = hi}

\* ---------------------------------------------------------------- collide
\* collide, were the right edge of a not part of it
collide_HalfOpen(a_col, a_row, a_width, a_height, b_col, b_row, b_width, b_height) ==
    /\ a_col + a_width > b_col
    /\ a_col <= b_col + b_width
    /\ a_row + a_height >= b_row
    /\ a_row <= b_row + b_height

collide(a_col, a_row, a_width, a_height, b_col, b_row, b_width, b_height) ==
    /\ a_col + a_width >= b_col
    /\ a_col <= b_col + b_width
    /\ a_row + a_height >= b_row
    /\ a_row <= b_row + b_height

\* ---------------------------------------------------------------- random_start
\* the two branches of the coin: along the top, or along the right edge
\* (RightCandidates_AtEdge: were the tile's width not taken off the column)
\* D holds the values the random calls of a run return: D.coins for getrandbits(1),
\* D.cols and D.rows for the two randint calls of random_start, D.speeds and
\* D.steps for those of Toast.__init__, D.respeeds for the one of Toast.move
TopCandidates(D) ==
    {<<c, 1>> : c \in {x \in D.cols : 1 \in D.coins}}
RightCandidates_AtEdge(D) ==
    {<<tft.width, r>> : r \in {y \in D.rows : 0 \in D.coins}}
RightCandidates(D) ==
    {<<tft.width - TileWidth, r>> : r \in {y \in D.rows : 0 \in D.coins}}
Candidates(D) == TopCandidates(D) \cup RightCandidates(D)

\* Blocked, were parked sprites skipped as obstacles
Blocked_SkipParked(cand, sprs, num) ==
    \E k \in 1..Len(sprs) :
        /\ num # sprs[k].num
        /\ ~(sprs[k].col = 0 /\ sprs[k].row = 0)
        /\ collide(cand[1], cand[2], TileWidth, TileHeight,
                   sprs[k].col, sprs[k].row, sprs[k].width, sprs[k].height)

\* the any(...) of random_start: the candidate collides with a sprite other than num
Blocked(cand, sprs, num) ==
    \E k \in 1..Len(sprs) :
        /\ num # sprs[k].num
        /\ collide(cand[1], cand[2], TileWidth, TileHeight,
                   sprs[k].col, sprs[k].row, sprs[k].width, sprs[k].height)

\* random_start with its random draw made explicit as cand
random_start(cand, sprs, num) ==
    IF Blocked(cand, sprs, num) THEN <<0, 0>> ELSE cand

\* ---------------------------------------------------------------- Toast
\* Toast.__init__ with its three random draws: cand, step0 and speed
NewToast(sprs, frames, cand, step0, speed) ==
    LET at == random_start(cand, sprs, Len(sprs))
    IN  [num |-> Len(sprs), frames |-> frames, steps |-> Len(frames),
         col |-> at[1], row |-> at[2],
         width |-> TileWidth, height |-> TileHeight,
         last_col |-> at[1], last_row |-> at[2],
         step |-> step0,
         dir_col |-> -speed, dir_row |-> CruiseDirRow,
         prev_dir_col |-> -speed, prev_dir_row |-> CruiseDirRow,
         iceberg |-> 0]

\* Toast.clear: the two fill_rect calls
ClearCalls(s) ==
    << [op |-> "fill_rect", col |-> s.col, row |-> s.row - 1,
        w |-> s.width, h |-> s.dir_row + 1, arg |-> BLACK],
       [op |-> "fill_rect", col |-> s.col + s.width + s.dir_col, row |-> s.row,
        w |-> -s.dir_col, h |-> s.height, arg |-> BLACK] >>

\* Toast.erase: one fill_rect over the last position
EraseCalls(s) ==
    << [op |-> "fill_rect", col |-> s.last_col, row |-> s.last_row,
        w |-> s.width, h |-> s.height, arg |-> BLACK] >>

\* DrawCond, were the sentinel not tested
DrawCond_Always(s) == TRUE

\* the condition of Toast.draw: "if self.col and self.row"
DrawCond(s) == s.col # 0 /\ s.row # 0

\* Toast.draw: the bitmap call, or nothing
DrawCalls(s) ==
    IF DrawCond(s)
    THEN << [op |-> "bitmap", col |-> s.col, row |-> s.row,
             w |-> s.width, h |-> s.height, arg |-> s.frames[s.step + 1]] >>
    ELSE << >>

\* ---------------------------------------------------------------- Toast.move
\* "if self.steps: self.step = (self.step + 1) % self.steps"
StepFrame(s) ==
    IF s.steps # 0 THEN [s EXCEPT !.step = (s.step + 1) % s.steps] ELSE s

\* Hits, were the side of the other sprite not tested
Hits_AnySide(self, new_col, new_row, other) ==
    /\ self.num # other.num
    /\ collide(new_col, new_row, self.width, self.height,
               other.col, other.row, other.width, other.height)

\* the condition of the collision loop for one other sprite
Hits(self, new_col, new_row, other) ==
    /\ self.num # other.num
    /\ collide(new_col, new_row, self.width, self.height,
               other.col, other.row, other.width, other.height)
    /\ self.col > other.col

\* Deflect, were the new location not computed again
Deflect_NoRecompute(self, st) ==
    [iceberg |-> DeflectTicks, dir_col |-> DeflectDirCol, dir_row |-> DeflectDirRow,
     new_col |-> st.new_col, new_row |-> st.new_row, hit |-> TRUE]

\* Deflect, were the turn made from the candidate location
Deflect_FromCandidate(self, st) ==
    [iceberg |-> DeflectTicks, dir_col |-> DeflectDirCol, dir_row |-> DeflectDirRow,
     new_col |-> st.new_col + DeflectDirCol, new_row |-> st.new_row + DeflectDirRow,
     hit |-> TRUE]

\* the body of the collision loop: what a hit assigns
Deflect(self, st) ==
    [iceberg |-> DeflectTicks, dir_col |-> DeflectDirCol, dir_row |-> DeflectDirRow,
     new_col |-> self.col + DeflectDirCol, new_row |-> self.row + DeflectDirRow,
     hit |-> TRUE]

\* "for sprite in sprites": the loop from index k on, st the loop's variables
RECURSIVE Scan(_, _, _, _)
Scan(self, sprs, k, st) ==
    IF k > Len(sprs) THEN st
    ELSE Scan(self, sprs, k + 1,
              IF Hits(self, st.new_col, st.new_row, sprs[k])
              THEN Deflect(self, st) ELSE st)

\* lines 101-120: the candidate location, then the whole collision loop
Collisions(self, sprs) ==
    Scan(self, sprs, 1,
         [iceberg |-> self.iceberg, dir_col |-> self.dir_col,
          dir_row |-> self.dir_row,
          new_col |-> self.col + self.dir_col,
          new_row |-> self.row + self.dir_row, hit |-> FALSE])

\* lines 96-123: step the frame, remember the last position, run the loop, commit
Commit(self, sprs) ==
    LET s1 == StepFrame(self)
        st == Collisions(self, sprs)
    IN  [s1 EXCEPT !.last_col = self.col, !.last_row = self.row,
                   !.iceberg = st.iceberg, !.dir_col = st.dir_col,
                   !.dir_row = st.dir_row,
                   !.col = st.new_col, !.row = st.new_row]

\* ExitCond, were column 0 still on the screen
ExitCond_Strict(s) == s.col < 0 \/ s.row > tft.height - s.height

\* ExitCond, were the tile's height not taken off the bottom edge
ExitCond_Late(s) == s.col <= 0 \/ s.row > tft.height

\* ExitCond, were the left edge not tested
ExitCond_RowOnly(s) == s.row > tft.height - s.height

\* "if self.col <= 0 or self.row > tft.height() - self.height"
ExitCond(s) == s.col <= 0 \/ s.row > tft.height - s.height

\* lines 128-130: the new velocity and the new start location
Respawn(s, sprs, speed, cand) ==
    LET at == random_start(cand, sprs, s.num)
    IN  [s EXCEPT !.dir_col = -speed, !.dir_row = CruiseDirRow,
                  !.col = at[1], !.row = at[2]]

\* Track, were the saved direction never put back
Track_NoRestore(s) ==
    IF s.iceberg # 0 THEN [s EXCEPT !.iceberg = @ - 1] ELSE s

\* lines 133-137: track the post collision direction change
Track(s) ==
    IF s.iceberg # 0
    THEN LET t == [s EXCEPT !.iceberg = @ - 1]
         IN  IF t.iceberg = 1
             THEN [t EXCEPT !.dir_col = t.prev_dir_col, !.dir_row = t.prev_dir_row]
             ELSE t
    ELSE s

\* ---------------------------------------------------------------- main
\* LoopCond, were the pin never read
LoopCond_Forever(v) == TRUE

\* "while stop.value()"
LoopCond(v) == v # 0

\* the values the random calls return in a run of Spec: every DrawStride-th value
WideDraws ==
    [coins |-> {0, 1},
     cols |-> Draws(TileWidth \div 2, tft.width - TileWidth),
     rows |-> Draws(1, tft.height \div 2),
     speeds |-> Draws(MinSpeed, MaxSpeed),
     respeeds |-> Draws(MinSpeed, MaxSpeed),
     steps |-> [k \in 1..NumSprites |-> Draws(0, Len(SpriteFrames[k]))]]

\* in a run of SpecLong: the top edge only, at either end of it, the slowest
\* speed at construction and the fastest at every respawn, the last step value
LongDraws ==
    [coins |-> {1},
     cols |-> {TileWidth \div 2, tft.width - TileWidth},
     rows |-> {},
     speeds |-> {MinSpeed},
     respeeds |-> {MaxSpeed},
     steps |-> [k \in 1..NumSprites |-> {Len(SpriteFrames[k])}]]

\* in a run of SpecStop: the top edge only, one tile from its left end or at its
\* right end, the slowest speed, the first step value
StopDraws ==
    [coins |-> {1},
     cols |-> {TileWidth + 1, tft.width - TileWidth},
     rows |-> {},
     speeds |-> {MinSpeed},
     respeeds |-> {MinSpeed},
     steps |-> [k \in 1..NumSprites |-> {0}]]

\* history of one sprite: the velocity before its deflection began, the moves
\* since the last hit, the steps before its last moves, whether it is on screen,
\* whether it has moved in the tick under way
NewHistory ==
    [pre_vel |-> <<0, 0>>, since |-> 0, ago |-> << >>, shown |-> FALSE,
     moved |-> FALSE]

MoveHistory(h, before, after, hit) ==
    [h EXCEPT
       !.pre_vel = IF hit /\ before.iceberg = 0
                   THEN <<before.dir_col, before.dir_row>>
                   ELSE IF before.iceberg = 0 THEN <<0, 0>> ELSE @,
       !.since = IF hit THEN 1
                 ELSE IF @ \in 1..DeflectTicks - 1 THEN @ + 1 ELSE 0,
       !.ago = LET a == Append(@, before.step)
               IN  IF Len(a) > before.steps THEN Tail(a) ELSE a,
       !.moved = TRUE]

\* one more display call made while the stop pin is held low
Held == IF stop = 0 THEN (IF held < 3 * NumSprites + 1 THEN held + 1 ELSE held) ELSE 0

\* ---------------------------------------------------------------- clock.py
\* Button(..., debounce=350), in ms (scaled down)
Debounce == 2
\* utime.ticks_ms() counts up to TicksPeriod - 1 and wraps to 0 (scaled down)
TicksPeriod == 8
\* background_lock = 10 in both callbacks
LockTicks == 10
\* number of ms a run of SpecClock follows
ClockTicks == 3
HoursPerDay == 24
\* the two buttons made in main, named after their callbacks
Buttons == {"hour_pressed", "minute_pressed"}
DigitChars == <<"0", "1", "2", "3", "4", "5", "6", "7", "8", "9">>

\* utime.ticks_ms(), one ms later
ticks_after(t) == (t + 1) % TicksPeriod

\* lines 142-149: 12 hour time, "{:02d}" of the hour, the character at index 1
Hour12(h) == IF h = 0 THEN 12 ELSE IF h > 12 THEN h - 12 ELSE h
HourOnes(h) == DigitChars[(Hour12(h) % 10) + 1]

NoIrq == [button |-> "none", accepted |-> FALSE, elapsed |-> 0]

\* main up to line 98: the locals and the two Button objects, made at tick 0;
\* hours: the hours the real time clock may show then
InitClock(hours) ==
    /\ now = 0
    /\ next_call = [b \in Buttons |-> 0 + Debounce]
    /\ rtc \in hours
    /\ background_lock = 0
    /\ background_change = TRUE
    /\ last_time = "-"
    /\ time = "-"
    /\ cpc = "top"
    /\ since = [b \in Buttons |-> 0]
    /\ irq = NoIrq
    /\ iters = LockTicks

\* toasters.py before its first sprite is made, on a display of the given size
InitDisplay(width, height) ==
    /\ tft = [width |-> width, height |-> height]
    /\ sprites = << >>
    /\ pc = "new"
    /\ cur = 0
    /\ stop = 1
    /\ calls = << >>
    /\ tick = 0
    /\ mv = [op |-> "none"]
    /\ gh = << >>
    /\ held = 0
    /\ sample = 1

InitToast == InitDisplay(SurfaceWidth, SurfaceHeight)

\* no call of collide on its own
NoRect == [col |-> 0, row |-> 0, width |-> 0, height |-> 0]
NoAnswer == [done |-> FALSE, ab |-> FALSE, ba |-> FALSE]
InitRect == rect_a = NoRect /\ rect_b = NoRect /\ answer = NoAnswer

Init == InitToast /\ InitRect /\ InitClock({0})

\* sprites.append(Toast(sprites, toast_bitmaps, frames)), lines 166-168
Construct(D) ==
    /\ pc = "new"
    /\ \E cand \in Candidates(D), speed \in D.speeds,
          step0 \in D.steps[Len(sprites) + 1] :
          LET t == NewToast(sprites, SpriteFrames[Len(sprites) + 1], cand, step0, speed)
          IN  /\ sprites' = Append(sprites, t)
              /\ mv' = [op |-> "new", who |-> t.num, cand |-> cand]
    /\ gh' = Append(gh, NewHistory)
    /\ pc' = IF Len(sprites) + 1 = NumSprites THEN "poll" ELSE "new"
    /\ UNCHANGED <<cur, stop, calls, tick, held, sample, tft, rectVars, clockVars>>

\* the loop condition, read once before a tick
Poll(maxTicks) ==
    /\ pc = "poll"
    /\ tick < maxTicks
    /\ sample' = stop
    /\ IF LoopCond(stop)
       THEN pc' = "clear" /\ cur' = 1
       ELSE pc' = "done" /\ cur' = 0
    /\ UNCHANGED <<sprites, stop, calls, tick, mv, gh, held, tft, rectVars, clockVars>>

\* sprite.clear()
Clear ==
    /\ pc = "clear"
    /\ calls' = ClearCalls(sprites[cur])
    /\ pc' = "move"
    /\ mv' = [op |-> "none"]
    /\ held' = Held
    /\ UNCHANGED <<sprites, cur, stop, tick, gh, sample, tft, rectVars, clockVars>>

\* sprite.move(sprites)
Move(D) ==
    /\ pc = "move"
    /\ LET self == sprites[cur]
           c == Commit(self, sprites)
           sprs == [sprites EXCEPT ![cur] = c]
           hit == Collisions(self, sprites).hit
       IN  IF ExitCond(c)
           THEN \E speed \in D.respeeds, cand \in Candidates(D) :
                  LET after == Track(Respawn(c, sprs, speed, cand))
                  IN  /\ sprites' = [sprites EXCEPT ![cur] = after]
                      /\ calls' = calls \o EraseCalls(c)
                      /\ gh' = [gh EXCEPT ![cur] = MoveHistory(@, self, after, hit)]
                      /\ mv' = [op |-> "move", who |-> self.num, before |-> self,
                                hit |-> hit, commit |-> <<c.col, c.row>>,
                                set |-> <<c.dir_col, c.dir_row, c.iceberg>>,
                                exited |-> TRUE, cand |-> cand,
                                shown |-> gh[cur].shown,
                                seen |-> [k \in 1..Len(gh) |-> gh[k].moved]]
           ELSE /\ sprites' = [sprites EXCEPT ![cur] = Track(c)]
                /\ calls' = calls
                /\ gh' = [gh EXCEPT ![cur] = MoveHistory(@, self, Track(c), hit)]
                /\ mv' = [op |-> "move", who |-> self.num, before |-> self,
                          hit |-> hit, commit |-> <<c.col, c.row>>,
                          set |-> <<c.dir_col, c.dir_row, c.iceberg>>,
                          exited |-> FALSE, cand |-> <<0, 0>>,
                          shown |-> gh[cur].shown,
                          seen |-> [k \in 1..Len(gh) |-> gh[k].moved]]
    /\ pc' = "draw"
    /\ held' = Held
    /\ UNCHANGED <<cur, stop, tick, sample, tft, rectVars, clockVars>>

\* Draw, were the end of the tick inside the for loop
Draw_OnePerTick ==
    /\ pc = "draw"
    /\ calls' = calls \o DrawCalls(sprites[cur])
    /\ gh' = [gh EXCEPT ![cur].shown = DrawCond(sprites[cur])]
    /\ pc' = "sleep" /\ cur' = 0
    /\ held' = Held
    /\ UNCHANGED <<sprites, stop, tick, mv, sample, tft, rectVars, clockVars>>

\* sprite.draw(), then the next sprite of the for loop
Draw ==
    /\ pc = "draw"
    /\ calls' = calls \o DrawCalls(sprites[cur])
    /\ gh' = [gh EXCEPT ![cur].shown = DrawCond(sprites[cur])]
    /\ IF cur < Len(sprites)
       THEN pc' = "clear" /\ cur' = cur + 1
       ELSE pc' = "sleep" /\ cur' = 0
    /\ held' = Held
    /\ UNCHANGED <<sprites, stop, tick, mv, sample, tft, rectVars, clockVars>>

\* gc.collect(); time.sleep(0.01): the end of a tick (counted in a bounded run)
Sleep(counted) ==
    /\ pc = "sleep"
    /\ pc' = "poll"
    /\ tick' = IF counted THEN tick + 1 ELSE tick
    /\ mv' = [op |-> "none"]
    /\ calls' = << >>
    /\ gh' = [k \in 1..Len(gh) |-> [gh[k] EXCEPT !.moved = FALSE]]
    /\ UNCHANGED <<sprites, cur, stop, held, sample, tft, rectVars, clockVars>>

\* the stop button (Pin 15, pulled up) is pressed or released by the user
Press ==
    /\ pc # "done"
    /\ stop = 1
    /\ stop' = 0
    /\ held' = 0
    /\ UNCHANGED <<sprites, pc, cur, calls, tick, mv, gh, sample, tft, rectVars, clockVars>>

Release ==
    /\ pc # "done"
    /\ stop = 0
    /\ stop' = 1
    /\ held' = 0
    /\ UNCHANGED <<sprites, pc, cur, calls, tick, mv, gh, sample, tft, rectVars, clockVars>>

\* a short run over many draws
Next ==
    \/ Construct(WideDraws)
    \/ Poll(MaxTicks)
    \/ Clear
    \/ Move(WideDraws)
    \/ Draw
    \/ Sleep(TRUE)

Spec == Init /\ [][Next]_vars

\* a run of any length over few draws
NextLong ==
    \/ Construct(LongDraws)
    \/ Poll(1)
    \/ Clear
    \/ Move(LongDraws)
    \/ Draw
    \/ Sleep(FALSE)

SpecLong == Init /\ [][NextLong]_vars

\* a run of a few ticks with the stop button, over few draws
NextStop ==
    \/ Construct(StopDraws)
    \/ Poll(StopTicks)
    \/ Clear
    \/ Move(StopDraws)
    \/ Draw
    \/ Sleep(TRUE)
    \/ Press
    \/ Release

SpecStop == Init /\ [][NextStop]_vars

\* in a run of SpecTall: the top edge only, at its right end or just clear of a
\* tile there, the slowest speed at construction and the fastest at every
\* respawn, the first step value
TallDraws ==
    [coins |-> {1},
     cols |-> {tft.width - 2 * TileWidth - 1, tft.width - TileWidth},
     rows |-> {},
     speeds |-> {MinSpeed},
     respeeds |-> {MaxSpeed},
     steps |-> [k \in 1..NumSprites |-> {0}]]

InitTall == InitDisplay(TallWidth, TallHeight) /\ InitRect /\ InitClock({0})

\* a run of some ticks on the tall surface
NextTall ==
    \/ Construct(TallDraws)
    \/ Poll(TallTicks)
    \/ Clear
    \/ Move(TallDraws)
    \/ Draw
    \/ Sleep(TRUE)

SpecTall == InitTall /\ [][NextTall]_vars

\* ---------------------------------------------------------------- collide alone
\* the coordinates and the sizes of the rectangles collide is called with
MaxCoord == 2
MaxSize == 2
Rects ==
    [col : 0..MaxCoord, row : 0..MaxCoord, width : 0..MaxSize, height : 0..MaxSize]

InitCollide ==
    /\ InitToast /\ InitClock({0})
    /\ rect_a \in Rects /\ rect_b \in Rects
    /\ answer = NoAnswer

\* collide(a, b) and collide(b, a)
CallCollide ==
    /\ ~answer.done
    /\ answer' =
         [done |-> TRUE,
          ab |-> collide(rect_a.col, rect_a.row, rect_a.width, rect_a.height,
                         rect_b.col, rect_b.row, rect_b.width, rect_b.height),
          ba |-> collide(rect_b.col, rect_b.row, rect_b.width, rect_b.height,
                         rect_a.col, rect_a.row, rect_a.width, rect_a.height)]
    /\ UNCHANGED <<rect_a, rect_b, toastVars, clockVars>>

SpecCollide == InitCollide /\ [][CallCollide]_vars

\* ---------------------------------------------------------------- clock.py: Button
\* one more ms on utime.ticks_ms(); a run stops the time at limit
Tick(limit) ==
    /\ now < limit
    /\ now' = ticks_after(now)
    /\ since' = [b \in Buttons |->
                    IF since[b] <= Debounce THEN since[b] + 1 ELSE since[b]]
    /\ UNCHANGED <<next_call, rtc, background_lock, background_change, last_time,
                   time, cpc, irq, iters, toastVars, rectVars>>

\* "if utime.ticks_ms() > self._next_call"
Due(t, next) == t > next

\* hour_pressed adds one to tm[5] and minute_pressed one to tm[4] of
\* rtc.datetime(), which are the minutes and the hours; carry: the minutes were 59
Callback(b, hour, carry) ==
    IF b = "hour_pressed"
    THEN (IF carry THEN (hour + 1) % HoursPerDay ELSE hour)
    ELSE (hour + 1) % HoursPerDay

\* Button.debounce_handler with the callback it calls
debounce_handler(b) ==
    IF Due(now, next_call[b])
    THEN /\ next_call' = [next_call EXCEPT ![b] = now + Debounce]
         /\ \E carry \in BOOLEAN : rtc' = Callback(b, rtc, carry)
         /\ background_lock' = LockTicks
         /\ since' = [since EXCEPT ![b] = 0]
         /\ irq' = [button |-> b, accepted |-> TRUE, elapsed |-> since[b]]
         /\ iters' = 0
         /\ UNCHANGED <<now, background_change, last_time, time, cpc,
                        toastVars, rectVars>>
    ELSE /\ irq' = [button |-> b, accepted |-> FALSE, elapsed |-> since[b]]
         /\ UNCHANGED <<now, next_call, rtc, background_lock, background_change,
                        last_time, time, cpc, since, iters, toastVars, rectVars>>

\* the falling edge of a button's pin
Interrupt == \E b \in Buttons : debounce_handler(b)

\* ---------------------------------------------------------------- clock.py: main
\* the real time clock reaches the next hour
HourPasses ==
    /\ rtc' = (rtc + 1) % HoursPerDay
    /\ UNCHANGED <<now, next_call, background_lock, background_change, last_time,
                   time, cpc, since, irq, iters, toastVars, rectVars>>

\* lines 103-136: "if background_change": the new background, all digits redrawn
NewBackground ==
    /\ cpc = "top"
    /\ IF background_change
       THEN background_change' = FALSE /\ last_time' = "-"
       ELSE UNCHANGED <<background_change, last_time>>
    /\ cpc' = "read"
    /\ UNCHANGED <<now, next_call, rtc, background_lock, time, since, irq, iters,
                   toastVars, rectVars>>

\* lines 139-149: read the time and format it
ReadTime ==
    /\ cpc = "read"
    /\ time' = HourOnes(rtc)
    /\ cpc' = "test"
    /\ UNCHANGED <<now, next_call, rtc, background_lock, background_change,
                   last_time, since, irq, iters, toastVars, rectVars>>

\* lines 155 and 160 for digit 1
ChangeCond(t, last, lock) == t # last /\ last # "-" /\ lock = 0

TestDigit ==
    /\ cpc = "test"
    /\ cpc' = IF ChangeCond(time, last_time, background_lock) THEN "set" ELSE "save"
    /\ UNCHANGED <<now, next_call, rtc, background_lock, background_change,
                   last_time, time, since, irq, iters, toastVars, rectVars>>

\* line 161
SetChange ==
    /\ cpc = "set"
    /\ background_change' = TRUE
    /\ cpc' = "save"
    /\ UNCHANGED <<now, next_call, rtc, background_lock, last_time, time, since,
                   irq, iters, toastVars, rectVars>>

\* line 176
SaveTime ==
    /\ cpc = "save"
    /\ last_time' = time
    /\ cpc' = "lock"
    /\ UNCHANGED <<now, next_call, rtc, background_lock, background_change, time,
                   since, irq, iters, toastVars, rectVars>>

\* lines 178-179: "if background_lock: background_lock -= 1"
TestLock ==
    /\ cpc = "lock"
    /\ cpc' = IF background_lock # 0 THEN "dec" ELSE "sleep"
    /\ UNCHANGED <<now, next_call, rtc, background_lock, background_change,
                   last_time, time, since, irq, iters, toastVars, rectVars>>

Unlock ==
    /\ cpc = "dec"
    /\ background_lock' = background_lock - 1
    /\ cpc' = "sleep"
    /\ UNCHANGED <<now, next_call, rtc, background_change, last_time, time,
                   since, irq, iters, toastVars, rectVars>>

\* lines 181-182, then the next iteration begins
SleepClock ==
    /\ cpc = "sleep"
    /\ cpc' = "top"
    /\ iters' = IF iters < LockTicks THEN iters + 1 ELSE iters
    /\ UNCHANGED <<now, next_call, rtc, background_lock, background_change,
                   last_time, time, since, irq, toastVars, rectVars>>

InitClockAnyHour == InitToast /\ InitRect /\ InitClock(0..HoursPerDay - 1)

\* the buttons alone, while main sleeps
NextButton ==
    \/ Tick(TicksPeriod)
    \/ Interrupt

SpecButton == InitClockAnyHour /\ [][NextButton]_vars

\* main with the interrupts of the two buttons
NextClock ==
    \/ Tick(ClockTicks)
    \/ Interrupt
    \/ HourPasses
    \/ NewBackground
    \/ ReadTime
    \/ TestDigit
    \/ SetChange
    \/ SaveTime
    \/ TestLock
    \/ Unlock
    \/ SleepClock

SpecClock == InitClockAnyHour /\ [][NextClock]_vars

\* ---------------------------------------------------------------- properties
Pos(s) == <<s.col, s.row>>
Parked(s) == s.col = 0 /\ s.row = 0
\* the rectangle of a tile at p collides with sprite s
Overlap(p, s) ==
    collide(p[1], p[2], TileWidth, TileHeight, s.col, s.row, s.width, s.height)
\* the state right after a move of sprites[cur], and right after its draw
JustMoved == pc = "draw" /\ mv.op = "move"
JustDrawn == pc \in {"clear", "sleep"} /\ mv.op = "move"
Others(i) == {k \in 1..Len(sprites) : k # i}
\* every coordinate random_start can try, whatever the draws of the run
EdgeSpawns ==
    {<<c, 1>> : c \in randint(TileWidth \div 2, tft.width - TileWidth)}
    \cup {<<tft.width - TileWidth, r>> : r \in randint(1, tft.height \div 2)}
Pixels(c, r, w, h) == {<<x, y>> : x \in c..(c + w - 1), y \in r..(r + h - 1)}
CallsOf(op) == {k \in 1..Len(calls) : calls[k].op = op}
Filled ==
    UNION {Pixels(calls[k].col, calls[k].row, calls[k].w, calls[k].h) :
           k \in CallsOf("fill_rect")}
Blitted ==
    UNION {Pixels(calls[k].col, calls[k].row, calls[k].w, calls[k].h) :
           k \in CallsOf("bitmap")}

\* C1 (as stated): a committed position that stays on the screen overlaps no other
\* sprite that is not parked.
C1_NoOverlapAtCommit ==
    JustMoved /\ ~mv.exited =>
        \A k \in Others(cur) :
            ~Parked(sprites[k]) => ~Overlap(mv.commit, sprites[k])

\* C1 (amended): a move whose candidate overlapped a sprite strictly to its left
\* commits the old position + (-1, +3), whether or not that still overlaps; a
\* position that comes from a respawn and is not the sentinel overlaps no other sprite.
C1_DeflectedOrPlacedClear ==
    JustMoved =>
        /\ (\E k \in Others(cur) :
               /\ Overlap(<<mv.before.col + mv.before.dir_col,
                            mv.before.row + mv.before.dir_row>>, sprites[k])
               /\ mv.before.col > sprites[k].col)
           => mv.commit = <<mv.before.col - 1, mv.before.row + 3>>
        /\ (mv.exited /\ ~Parked(sprites[cur]))
           => \A k \in Others(cur) : ~Overlap(Pos(sprites[cur]), sprites[k])

\* a deflected commit that still overlaps a sprite on the screen
C1_Witness ==
    /\ JustMoved /\ mv.hit /\ ~mv.exited
    /\ mv.commit = <<mv.before.col - 1, mv.before.row + 3>>
    /\ \E k \in Others(cur) : ~Parked(sprites[k]) /\ Overlap(mv.commit, sprites[k])

\* C2 (as stated): after a hit the timer is 32 minus the moves made since, and in
\* the move that takes it from 1 to 0 (without leaving the screen) the velocity is
\* the one the sprite had right before the deflection began.
C2_DeflectionTiming ==
    \A i \in 1..Len(sprites) :
        /\ gh[i].since \in 1..DeflectTicks
           => sprites[i].iceberg = DeflectTicks - gh[i].since
        /\ (JustMoved /\ cur = i /\ ~mv.exited /\ ~mv.hit
            /\ mv.before.iceberg = 1 /\ sprites[i].iceberg = 0)
           => <<sprites[i].dir_col, sprites[i].dir_row>> = gh[i].pre_vel

\* C3: a committed position with column <= 0 or row > height - tile height is
\* erased and replaced by a placement in the same move; no column is ever negative.
C3_ExitRespawns ==
    /\ \A i \in 1..Len(sprites) : sprites[i].col >= 0
    /\ JustMoved =>
         IF mv.commit[1] <= 0 \/ mv.commit[2] > tft.height - TileHeight
         THEN /\ Len(calls) = 3
              /\ calls[3] = [op |-> "fill_rect", col |-> mv.before.col,
                             row |-> mv.before.row, w |-> TileWidth,
                             h |-> TileHeight, arg |-> BLACK]
              /\ Pos(sprites[cur]) \in EdgeSpawns \cup {<<0, 0>>}
         ELSE /\ Len(calls) = 2
              /\ Pos(sprites[cur]) = mv.commit

\* a sprite left through column 0 and came back at an edge in the same move
C3_Witness ==
    /\ JustMoved /\ mv.commit[1] <= 0 /\ ~Parked(mv.before)
    /\ Pos(sprites[cur]) \in EdgeSpawns

\* C4: a sprite at (0,0) is not blitted in its turn; any other sprite is blitted
\* exactly once, by draw, at its position with tile frames[step].
C4_ParkedNeverDrawn ==
    /\ pc \in {"move", "draw"} => CallsOf("bitmap") = {}
    /\ JustDrawn =>
         LET s == sprites[mv.who + 1]
         IN  IF Pos(s) = <<0, 0>>
             THEN CallsOf("bitmap") = {}
             ELSE /\ Cardinality(CallsOf("bitmap")) = 1
                  /\ calls[Len(calls)] =
                       [op |-> "bitmap", col |-> s.col, row |-> s.row,
                        w |-> TileWidth, h |-> TileHeight,
                        arg |-> s.frames[s.step + 1]]

\* a parked sprite's turn ended without a blit
C4_Witness ==
    /\ JustDrawn /\ Parked(sprites[mv.who + 1]) /\ CallsOf("bitmap") = {}
    /\ \E k \in 1..Len(sprites) : ~Parked(sprites[k])

\* the sprite a placement was made for, in the state right after it
Placed == IF mv.op = "new" THEN Len(sprites) ELSE cur
JustPlaced == mv.op = "new" \/ (JustMoved /\ mv.exited)

\* C5: placement returns its one candidate when it collides with no other sprite
\* (parked ones included) and (0,0) otherwise; so a result other than (0,0)
\* overlaps no other sprite, and when every candidate collides the result is (0,0).
C5_PlacementValid ==
    JustPlaced =>
        LET at == Pos(sprites[Placed])
            free(p) == \A k \in Others(Placed) : ~Overlap(p, sprites[k])
        IN  /\ at = IF free(mv.cand) THEN mv.cand ELSE <<0, 0>>
            /\ at # <<0, 0>> => free(at)
            /\ (\A p \in EdgeSpawns : ~free(p)) => at = <<0, 0>>

\* a placement with two other sprites on the screen and no free candidate at all
C5_Witness ==
    /\ JustPlaced /\ Len(sprites) = NumSprites
    /\ \A p \in EdgeSpawns : \E k \in Others(Placed) : Overlap(p, sprites[k])
    /\ Pos(sprites[Placed]) = <<0, 0>>

\* C6 (as stated): step is always a valid index into frames.
C6_StepValid ==
    \A i \in 1..Len(sprites) :
        0 <= sprites[i].step /\ sprites[i].step < Len(sprites[i].frames)

\* C7 (as stated): for a sprite with N > 1 frames, N moves in a row bring step back
\* to the value it had before them.
C7_AnimationWrap ==
    \A i \in 1..Len(sprites) :
        (sprites[i].steps > 1 /\ Len(gh[i].ago) = sprites[i].steps)
        => sprites[i].step = gh[i].ago[1]

\* C8 (as stated): after clear, move and draw of a sprite that was on the screen,
\* every pixel of its old rectangle outside the rectangle drawn now has been filled.
C8_OldPixelsCleared ==
    (JustDrawn /\ mv.shown) =>
        (Pixels(mv.before.col, mv.before.row, TileWidth, TileHeight) \ Blitted)
        \subseteq Filled

\* C9: the timer stays in 0..32; a move takes it down by one, leaves it at 0, or
\* (only when the candidate overlaps a sprite strictly to the left) sets it to 32
\* and takes one off.
C9_TimerInv ==
    /\ \A i \in 1..Len(sprites) : sprites[i].iceberg \in 0..32
    /\ JustMoved =>
         LET b == mv.before
             a == sprites[cur].iceberg
             left == \E k \in Others(cur) :
                        /\ Overlap(<<b.col + b.dir_col, b.row + b.dir_row>>, sprites[k])
                        /\ b.col > sprites[k].col
         IN  IF left
             THEN a = 32 - 1
             ELSE a = (IF b.iceberg = 0 THEN 0 ELSE b.iceberg - 1)

\* C9: only a sprite's own move changes its timer.
C9_TimerStep ==
    \A i \in 1..Len(sprites) :
        (pc # "move" \/ cur # i) => sprites'[i].iceberg = sprites[i].iceberg

C9_TimerOnlyDecrements == []C9_TimerInv /\ [][C9_TimerStep]_vars

\* a timer that ran from a hit all the way down to 0
C9_Witness ==
    /\ JustMoved /\ mv.before.iceberg = 1 /\ sprites[cur].iceberg = 0
    /\ gh[cur].since = DeflectTicks

\* C10: the pin is read once, before the first sprite of a tick; the sprites are
\* processed only after it read high, the loop is left only after it read low, and
\* at most one tick's calls (clear, move, draw of every sprite) are made while the
\* pin stays low.
C10_StopPolledPerTick ==
    /\ held <= 3 * NumSprites
    /\ pc \in {"clear", "move", "draw", "sleep"} => sample # 0
    /\ pc = "done" => sample = 0 /\ stop = 0

\* the button went down right after the pin was read: a whole tick ran, then the
\* loop ended
C10_Witness == pc = "done" /\ held = 3 * NumSprites

\* the points of a rectangle, its far edges included
ClosedBox(r) ==
    {<<x, y>> : x \in r.col..(r.col + r.width), y \in r.row..(r.row + r.height)}

\* C11: collide(a, b) = collide(b, a), and it is true exactly when the two
\* rectangles, far edges included, share a point (so equal rectangles and
\* rectangles that only touch collide).
C11_CollideSymmetric ==
    answer.done =>
        /\ answer.ab = answer.ba
        /\ answer.ab = (ClosedBox(rect_a) \cap ClosedBox(rect_b) # {})
        /\ rect_a = rect_b => answer.ab

\* two different rectangles that only touch along an edge were found to collide
C11_Witness ==
    /\ answer.done /\ answer.ab /\ answer.ba
    /\ rect_a.width > 0 /\ rect_b.width > 0
    /\ rect_a.col + rect_a.width = rect_b.col

Forced(s) == s.dir_col = DeflectDirCol /\ s.dir_row = DeflectDirRow

\* C12 (as stated): a move of a deflected sprite (no respawn, no new collision)
\* keeps the velocity (-1, +3) as long as it leaves the timer above 0; the saved
\* velocity comes back in the move that takes the timer from 1 to 0, not before.
C12_RestoreAtZero ==
    (JustMoved /\ ~mv.exited /\ ~mv.hit /\ mv.before.iceberg > 0
     /\ Forced(mv.before))
    => (Forced(sprites[cur]) <=> sprites[cur].iceberg > 0)

\* the other sprites the candidate location of b overlaps and that lie strictly
\* to the left of b
LeftObstacles(b, i) ==
    {k \in Others(i) :
        /\ Overlap(<<b.col + b.dir_col, b.row + b.dir_row>>, sprites[k])
        /\ b.col > sprites[k].col}

\* the sprite list in another order
Reordered(sprs, p) == [k \in 1..Len(sprs) |-> sprs[p[k]]]

\* C13: a move deflects exactly when the first candidate (position + velocity)
\* overlaps another sprite strictly to the left; it then commits the old position
\* + (-1, +3) with velocity (-1, +3) and timer 32, and otherwise the candidate with
\* velocity and timer untouched; the outcome does not depend on the number of
\* matching sprites nor on the order of the sprite list.
C13_DeflectIffLeftOverlap ==
    /\ JustMoved =>
         LET b == mv.before
         IN  IF LeftObstacles(b, cur) # {}
             THEN /\ mv.hit
                  /\ mv.commit = <<b.col - 1, b.row + 3>>
                  /\ mv.set = <<-1, 3, 32>>
             ELSE /\ ~mv.hit
                  /\ mv.commit = <<b.col + b.dir_col, b.row + b.dir_row>>
                  /\ mv.set = <<b.dir_col, b.dir_row, b.iceberg>>
    /\ pc = "move" =>
         \A p \in Permutations(1..Len(sprites)) :
             Collisions(sprites[cur], Reordered(sprites, p))
               = Collisions(sprites[cur], sprites)

\* a move with two matching sprites at once, deflected as with one
C13_Witness ==
    /\ JustMoved /\ mv.hit
    /\ Cardinality(LeftObstacles(mv.before, cur)) = 2
    /\ mv.commit = <<mv.before.col - 1, mv.before.row + 3>>

\* C14: mv.seen[k] tells whether sprite k had moved in this tick when the move
\* of sprites[cur] read its position.  A move finds every sprite before it moved
\* and none after it; a sprite's clear, move and draw follow one another, then
\* the next index, and the first index after the pin was read.
C14_Inv ==
    /\ JustMoved => \A k \in Others(cur) : mv.seen[k] = (k < cur)
    /\ pc \in {"clear", "move"} =>
         \A k \in 1..Len(sprites) : gh[k].moved = (k < cur)

C14_Step ==
    <<pc, cur>>' # <<pc, cur>> =>
        /\ pc = "poll" => (pc' = "done" \/ (pc' = "clear" /\ cur' = 1))
        /\ pc = "clear" => (pc' = "move" /\ cur' = cur)
        /\ pc = "move" =>
             /\ pc' = "draw" /\ cur' = cur
             /\ \A k \in Others(cur) : sprites'[k] = sprites[k]
        /\ pc = "draw" =>
             IF cur < NumSprites THEN pc' = "clear" /\ cur' = cur + 1
                                 ELSE pc' = "sleep"
        /\ pc' \in {"move", "draw"} => cur' = cur

C14_ProcessingOrder == []C14_Inv /\ [][C14_Step]_vars

\* after the first tick, the second sprite was deflected by the position the
\* first had just moved to, and would not have been by the one it left
C14_Witness ==
    /\ JustMoved /\ cur = 2 /\ tick >= 1 /\ mv.hit /\ mv.seen[1] /\ ~mv.seen[3]
    /\ LeftObstacles(mv.before, 2) = {1}
    /\ ~collide(mv.before.col + mv.before.dir_col, mv.before.row + mv.before.dir_row,
                TileWidth, TileHeight,
                sprites[1].last_col, sprites[1].last_row, TileWidth, TileHeight)

\* C15: a placement that is not (0,0) is on the top edge (row 1, column from half
\* a tile to the surface width less a tile) or on the right edge (column the
\* surface width less a tile, row from 1 to half the surface height).
C15_SpawnCoordinates ==
    JustPlaced =>
        LET at == Pos(sprites[Placed])
        IN  at # <<0, 0>> =>
              \/ /\ at[2] = 1
                 /\ TileWidth \div 2 <= at[1] /\ at[1] <= tft.width - TileWidth
              \/ /\ at[1] = tft.width - TileWidth
                 /\ 1 <= at[2] /\ at[2] <= tft.height \div 2

\* a respawn at the lowest place of the right edge
C15_Witness ==
    /\ JustMoved /\ mv.exited
    /\ Pos(sprites[cur]) = <<tft.width - TileWidth, tft.height \div 2>>

\* C16: the move of a sprite parked at (0,0) commits a column <= 0, so it erases
\* and tries one placement; the sprite is parked again after it only if that one
\* candidate collided with another sprite, and is at the candidate otherwise.
C16_ParkedRespawns ==
    (JustMoved /\ Parked(mv.before)) =>
        /\ mv.commit[1] <= 0
        /\ mv.exited
        /\ Len(calls) = 3
        /\ IF \E k \in Others(cur) : Overlap(mv.cand, sprites[k])
           THEN Parked(sprites[cur])
           ELSE Pos(sprites[cur]) = mv.cand /\ ~Parked(sprites[cur])

\* a sprite parked for a second tick in a row
C16_Witness ==
    /\ JustMoved /\ Parked(mv.before) /\ Parked(sprites[cur]) /\ tick >= 1
    /\ \E k \in Others(cur) : Overlap(mv.cand, sprites[k])

\* C17: dir_col is in -5..-1 and dir_row is 2 or 3 in every state; a sprite whose
\* timer is 0 has velocity (-m, +2) with m in 2..5.
C17_VelocityRange ==
    \A i \in 1..Len(sprites) :
        /\ sprites[i].dir_col \in -5..-1
        /\ sprites[i].dir_row \in {2, 3}
        /\ sprites[i].iceberg = 0 =>
             /\ sprites[i].dir_row = 2
             /\ -sprites[i].dir_col \in 2..5

\* a countdown that ended without a respawn: the timer is 0 again
C17_Witness ==
    /\ JustMoved /\ ~mv.exited /\ ~mv.hit
    /\ mv.before.iceberg = 1 /\ sprites[cur].iceberg = 0
    /\ sprites[cur].dir_row = 2

\* C18 (as stated): an interrupt calls the callback exactly when more than
\* Debounce ms have passed since the button's last accepted interrupt (or since
\* it was made), whatever the value of the wrapping ticks_ms counter.
C18_DebounceWindow ==
    irq.button # "none" => (irq.accepted <=> irq.elapsed > Debounce)

\* main asks for a new background in this step
Requests == ~background_change /\ background_change'

\* C19 (as stated): background_lock stays in 0..10, and main asks for a new
\* background only at a moment when background_lock is 0 and the hour's last
\* digit differs from one shown before, never in an iteration begun within the
\* 9 iterations after a button callback.
C19_ChangeOnlyUnlocked ==
    Requests =>
        /\ background_lock = 0
        /\ last_time # "-" /\ time # last_time
        /\ iters \notin 1..(LockTicks - 1)

C19_LockRange == background_lock \in 0..LockTicks

C19_LockBlocksChange == []C19_LockRange /\ [][C19_ChangeOnlyUnlocked]_vars

\* the parts of C19 that do not depend on the moment of the callback
C19_NotInLaterIterations ==
    [][Requests => (last_time # "-" /\ time # last_time
                    /\ iters \notin 1..(LockTicks - 1))]_vars

\* C20: every blit of draw lies inside the surface: its column is in
\* 1..width - tile width and its row in 1..height - tile height.
C20_BlitsInside ==
    \A k \in CallsOf("bitmap") :
        /\ 1 <= calls[k].col /\ calls[k].col <= tft.width - TileWidth
        /\ 1 <= calls[k].row /\ calls[k].row <= tft.height - TileHeight
        /\ calls[k].w = TileWidth /\ calls[k].h = TileHeight

\* a sprite that moved and was drawn on the lowest row a tile fits on
C20_Witness ==
    /\ JustDrawn /\ ~mv.exited
    /\ \E k \in CallsOf("bitmap") : calls[k].row = tft.height - TileHeight

====
